---- MODULE Spec2Model ----
(***************************************************************************)
(* Model of src/app.py: the Streamlit script main() of the plant and soil  *)
(* health detection app.  One session is modelled.  Every user interaction *)
(* (selectbox change, upload, button press) requests a script run, and     *)
(* main() then runs top to bottom as one step.  The session state          *)
(* (analysis_history) and the widget values survive between runs; every    *)
(* local of main() is rebuilt by each run.                                 *)
(*                                                                         *)
(* Text that the script transforms (the selectbox option, the detected     *)
(* type) is a sequence of one-character strings, so that str.replace and   *)
(* str.lower are computed.  Confidence is counted in tenths (5 is 0.5).    *)
(* datetime.now() is a logical clock that ticks at every reading.          *)
(***************************************************************************)
EXTENDS Integers, Sequences, FiniteSets, TLC

\* Bound: how many timestamps the clock hands out (analyses ever recorded).
MaxAnalyses == 3

\* app.py:56  confidence_threshold = 0.5, in tenths.
confidence_threshold == 5

\* app.py:72  analysis_history[-5:]
RecentCount == 5

----------------------------------------------------------------------------
(* Text *)

AutoDetect == <<"A","u","t","o","-","d","e","t","e","c","t">>
PlantHealth == <<"P","l","a","n","t"," ","H","e","a","l","t","h">>
SoilHealth == <<"S","o","i","l"," ","H","e","a","l","t","h">>
HealthSuffix == <<" ","H","e","a","l","t","h">>
plant == <<"p","l","a","n","t">>
soil == <<"s","o","i","l">>
undetermined == <<"u","n","d","e","t","e","r","m","i","n","e","d">>

\* app.py:52-55  the selectbox options, first option is the default
AnalysisTypes == <<AutoDetect, PlantHealth, SoilHealth>>

UpperCase == <<"A","B","C","D","E","F","G","H","I","J","K","L","M",
               "N","O","P","Q","R","S","T","U","V","W","X","Y","Z">>
LowerCase == <<"a","b","c","d","e","f","g","h","i","j","k","l","m",
               "n","o","p","q","r","s","t","u","v","w","x","y","z">>

\* str.lower() on one character
LowerChar(c) ==
  IF \E i \in 1..Len(UpperCase) : UpperCase[i] = c
  THEN LowerCase[CHOOSE i \in 1..Len(UpperCase) : UpperCase[i] = c]
  ELSE c

\* str.lower()
Lower(s) == [i \in 1..Len(s) |-> LowerChar(s[i])]

\* str.replace(old, new): every non-overlapping occurrence, left to right
RECURSIVE Replace(_, _, _)
Replace(s, old, new) ==
  IF Len(s) < Len(old) THEN s
  ELSE IF SubSeq(s, 1, Len(old)) = old
       THEN new \o Replace(SubSeq(s, Len(old) + 1, Len(s)), old, new)
       ELSE <<Head(s)>> \o Replace(Tail(s), old, new)

----------------------------------------------------------------------------
(* The images a user can upload.  An image is known to the script only     *)
(* through its file name and through what the components do with it.       *)

NoFile == "None"

Raises(e) == [raises |-> TRUE, exc |-> e, condition |-> "", confidence |-> 0,
              details |-> <<>>]
Scores(c, conf, d) == [raises |-> FALSE, exc |-> "", condition |-> c,
                       confidence |-> conf, details |-> d]

Images == {
  [name |-> "corrupt.png", opens |-> FALSE, normalizes |-> FALSE,
   looks |-> undetermined,
   as_plant |-> Raises("ScoringError"), as_soil |-> Raises("ScoringError")],
  [name |-> "cmyk.tiff", opens |-> TRUE, normalizes |-> FALSE,
   looks |-> undetermined,
   as_plant |-> Raises("ScoringError"), as_soil |-> Raises("ScoringError")],
  [name |-> "leaf.jpg", opens |-> TRUE, normalizes |-> TRUE,
   looks |-> plant,
   as_plant |-> Scores("Healthy", 9, <<<<"chlorosis_index", 1>>>>),
   as_soil |-> Scores("Poor", 3, <<<<"moisture_tone_index", 2>>>>)],
  [name |-> "dirt.png", opens |-> TRUE, normalizes |-> TRUE,
   looks |-> soil,
   as_plant |-> Raises("ScoringError"),
   as_soil |-> Scores("Fair", 5, <<<<"moisture_tone_index", 6>>>>)],
  [name |-> "blur.jpg", opens |-> TRUE, normalizes |-> TRUE,
   looks |-> undetermined,
   as_plant |-> Scores("Moderate Issues", 4, <<<<"chlorosis_index", 5>>>>),
   as_soil |-> Raises("ScoringError")]
}

ImageNames == {im.name : im \in Images}
ImageOf(f) == CHOOSE im \in Images : im.name = f

\* app.py:93  Image.open(uploaded_file)
ImageOpen(f) ==
  IF ImageOf(f).opens THEN [raises |-> FALSE, exc |-> ""]
  ELSE [raises |-> TRUE, exc |-> "UnidentifiedImageError"]

\* Image Normalizer
preprocess_image(f) ==
  IF ImageOf(f).normalizes THEN [raises |-> FALSE, exc |-> ""]
  ELSE [raises |-> TRUE, exc |-> "UnsupportedFormatError"]

\* Type Classifier: total, one of plant, soil, undetermined
detect_image_type(f) == ImageOf(f).looks

\* Plant Health Scorer and Soil Health Scorer
plant_analyze(f) == ImageOf(f).as_plant
soil_analyze(f) == ImageOf(f).as_soil

\* Recommendation Engine: rule table keyed by (type, condition)
get_recommendations(r) ==
  CASE r.result \in {"Healthy", "Good"} -> <<"keep current care">>
    [] r.result \in {"Moderate Issues", "Fair"} ->
         IF r.type = PlantHealth THEN <<"inspect leaves", "adjust watering">>
         ELSE <<"add compost", "test moisture">>
    [] OTHER ->
         IF r.type = PlantHealth THEN <<"isolate plant", "treat for disease">>
         ELSE <<"amend soil", "retest">>

\* Backup Manager: a failed write degrades the status instead of raising
BackupStates == <<"ok", "degraded", "failed">>
backup_analysis(status, r, ok) ==
  IF ok THEN [status |-> "ok", failures |-> 0, last_backup |-> r.timestamp]
  ELSE [status |-> IF status.failures = 0 THEN "degraded" ELSE "failed",
        failures |-> IF status.failures = 0 THEN 1 ELSE 2,
        last_backup |-> status.last_backup]

----------------------------------------------------------------------------
(* The locals of one run of main(), threaded through its statements.  status *)
(* is "running" while control flows on, "raised" while an exception          *)
(* propagates to the except clause, "stopped" after st.stop().  calls lists  *)
(* the component calls and history appends of the run in execution order.    *)

NoError == <<>>

Context(ss, now, log, bstatus) ==
  [status |-> "running", exc |-> "", failed_stage |-> "none",
   calls |-> <<>>, detected_type |-> <<>>, analysis_result |-> <<>>,
   history |-> ss.analysis_history, clock |-> now,
   backup_log |-> log, backup_status |-> bstatus,
   errors |-> NoError, info |-> <<>>]

Raise(ctx, stage, e) ==
  [ctx EXCEPT !.status = "raised", !.exc = e, !.failed_stage = stage]

\* the guard of app.py:36 dropped: every run starts a fresh history
InitSessionStateFresh(ss) == [analysis_history |-> <<>>]

\* app.py:36-37
InitSessionState(ss) ==
  IF "analysis_history" \in DOMAIN ss THEN ss
  ELSE [analysis_history |-> <<>>]

\* app.py:71-77  the sidebar expanders, in display order
RecentAnalyses(h) ==
  LET first == IF Len(h) > RecentCount THEN Len(h) - RecentCount + 1 ELSE 1
      recent == SubSeq(h, first, Len(h))
  IN [k \in 1..Len(recent) |->
        [label |-> Len(h) - (k - 1), analysis |-> recent[k]]]

\* app.py:93-94
OpenImage(ctx, f) ==
  IF ctx.status # "running" THEN ctx
  ELSE IF ImageOpen(f).raises THEN Raise(ctx, "decode", ImageOpen(f).exc)
  ELSE ctx

\* app.py:98
PreprocessImage(ctx, f) ==
  IF ctx.status # "running" THEN ctx
  ELSE LET c == [ctx EXCEPT !.calls = Append(@, "preprocess_image")]
       IN IF preprocess_image(f).raises
          THEN Raise(c, "normalize", preprocess_image(f).exc)
          ELSE c

\* app.py:105 replacing "Health" and leaving the space before it
DetermineTypeKeepsSpace(ctx, type, f) ==
  IF ctx.status # "running" THEN ctx
  ELSE IF type = AutoDetect
       THEN [ctx EXCEPT !.calls = Append(@, "detect_image_type"),
                        !.detected_type = detect_image_type(f),
                        !.info = Append(@, <<"Auto-detected", detect_image_type(f)>>)]
       ELSE [ctx EXCEPT !.detected_type =
               Lower(Replace(type, Tail(HealthSuffix), <<>>))]

\* app.py:101-105
DetermineType(ctx, type, f) ==
  IF ctx.status # "running" THEN ctx
  ELSE IF type = AutoDetect
       THEN [ctx EXCEPT !.calls = Append(@, "detect_image_type"),
                        !.detected_type = detect_image_type(f),
                        !.info = Append(@, <<"Auto-detected", detect_image_type(f)>>)]
       ELSE [ctx EXCEPT !.detected_type = Lower(Replace(type, HealthSuffix, <<>>))]

\* app.py:108-126
PerformAnalysis(ctx, f) ==
  IF ctx.status # "running" THEN ctx
  ELSE IF ctx.detected_type = plant THEN
         LET c == [ctx EXCEPT !.calls = Append(@, "plant_detector.analyze")]
             result == plant_analyze(f)
         IN IF result.raises THEN Raise(c, "score", result.exc)
            ELSE [c EXCEPT !.analysis_result =
                    <<[type |-> PlantHealth, result |-> result.condition,
                       confidence |-> result.confidence,
                       details |-> result.details]>>]
  ELSE IF ctx.detected_type = soil THEN
         LET c == [ctx EXCEPT !.calls = Append(@, "soil_detector.analyze")]
             result == soil_analyze(f)
         IN IF result.raises THEN Raise(c, "score", result.exc)
            ELSE [c EXCEPT !.analysis_result =
                    <<[type |-> SoilHealth, result |-> result.condition,
                       confidence |-> result.confidence,
                       details |-> result.details]>>]
  ELSE [ctx EXCEPT !.status = "stopped", !.failed_stage = "classify",
                   !.errors = Append(@,
                      [kind |-> "Could not determine image type. Please select manually.",
                       detail |-> ""])]

\* app.py:129-130
AddTimestamp(ctx, f) ==
  IF ctx.status # "running" THEN ctx
  ELSE [ctx EXCEPT !.clock = @ + 1,
                   !.analysis_result =
                      <<[timestamp |-> ctx.clock + 1, image_name |-> f]
                        @@ ctx.analysis_result[1]>>]

\* app.py:133 moved to a finally clause: the append also happens on the
\* way out of a rejected run
StoreInHistoryAlways(ctx) ==
  [ctx EXCEPT !.history =
                Append(@, IF ctx.analysis_result # <<>>
                          THEN ctx.analysis_result[1]
                          ELSE [type |-> <<>>, result |-> "",
                                confidence |-> 0, details |-> <<>>,
                                timestamp |-> 0, image_name |-> ""]),
              !.calls = Append(@, "analysis_history.append")]

\* app.py:133
StoreInHistory(ctx) ==
  IF ctx.status # "running" THEN ctx
  ELSE [ctx EXCEPT !.history = Append(@, ctx.analysis_result[1]),
                   !.calls = Append(@, "analysis_history.append")]

\* app.py:136 made only for results that pass the display threshold
BackupAnalysisIfConfident(ctx, f, ok) ==
  IF ctx.status # "running" THEN ctx
  ELSE IF ctx.analysis_result[1].confidence < confidence_threshold THEN ctx
  ELSE [ctx EXCEPT !.calls = Append(@, "backup_analysis"),
                   !.backup_log = @ \cup {ctx.analysis_result[1].timestamp},
                   !.backup_status =
                      backup_analysis(@, ctx.analysis_result[1], ok)]

\* app.py:136
BackupAnalysis(ctx, f, ok) ==
  IF ctx.status # "running" THEN ctx
  ELSE [ctx EXCEPT !.calls = Append(@, "backup_analysis"),
                   !.backup_log = @ \cup {ctx.analysis_result[1].timestamp},
                   !.backup_status =
                      backup_analysis(@, ctx.analysis_result[1], ok)]

\* app.py:138-140  st.stop() ends the run by a control-flow exception that is
\* no Exception, so a run stopped at line 126 passes this clause untouched.
ExceptHandler(ctx) ==
  IF ctx.status # "raised" THEN ctx
  ELSE [ctx EXCEPT !.status = "stopped",
                   !.errors = Append(@, [kind |-> "Error processing image",
                                         detail |-> ctx.exc])]

\* app.py:82-140  the upload column
UploadColumn(ctx, type, f, ok) ==
  IF f = NoFile THEN ctx
  ELSE ExceptHandler(
         BackupAnalysis(
           StoreInHistory(
             AddTimestamp(
               PerformAnalysis(
                 DetermineType(
                   PreprocessImage(OpenImage(ctx, f), f), type, f), f), f)),
           f, ok))

NoResults == [shown |-> "none", headline |-> <<>>, confidence |-> 0,
              details |-> <<>>, recommendations |-> <<>>]

\* app.py:150-155
Headline(r) ==
  IF r.result \in {"Healthy", "Good"} THEN <<"success", r.type, r.result>>
  ELSE IF r.result \in {"Moderate Issues", "Fair"}
       THEN <<"warning", r.type, r.result>>
       ELSE <<"error", r.type, r.result>>

\* app.py:149 with > for >=
PassesThresholdStrict(r) == r.confidence > confidence_threshold

\* app.py:149  the display gate
PassesThreshold(r) == r.confidence >= confidence_threshold

\* app.py:147 also asking that the backup went through
ResultsColumnIfBackedUp(ctx, f) ==
  IF f = NoFile THEN [NoResults EXCEPT !.shown = "upload_prompt"]
  ELSE IF Len(ctx.analysis_result) = 0 \/ ctx.backup_status.status # "ok"
       THEN [NoResults EXCEPT !.shown = "in_progress"]
  ELSE LET r == ctx.analysis_result[1]
       IN IF r.confidence >= confidence_threshold
          THEN [shown |-> "result", headline |-> Headline(r),
                confidence |-> r.confidence, details |-> r.details,
                recommendations |-> get_recommendations(r)]
          ELSE [NoResults EXCEPT !.shown = "low_confidence",
                                 !.confidence = r.confidence]

\* app.py:142-179  the results column
ResultsColumn(ctx, f) ==
  IF f = NoFile THEN [NoResults EXCEPT !.shown = "upload_prompt"]
  ELSE IF Len(ctx.analysis_result) = 0
       THEN [NoResults EXCEPT !.shown = "in_progress"]
  ELSE LET r == ctx.analysis_result[1]
       IN IF PassesThreshold(r)
          THEN [shown |-> "result", headline |-> Headline(r),
                confidence |-> r.confidence, details |-> r.details,
                recommendations |-> get_recommendations(r)]
          ELSE [NoResults EXCEPT !.shown = "low_confidence",
                                 !.confidence = r.confidence]

\* app.py:167  the call made by the results column
ResultsCalls(ctx, f) ==
  IF f # NoFile /\ Len(ctx.analysis_result) > 0
     /\ PassesThreshold(ctx.analysis_result[1])
  THEN Append(ctx.calls, "get_recommendations")
  ELSE ctx.calls

\* app.py:187-195
CountType(h, t) == Cardinality({k \in 1..Len(h) : h[k].type = t})
Statistics(h) ==
  [total |-> Len(h), plant_analyses |-> CountType(h, PlantHealth),
   soil_analyses |-> CountType(h, SoilHealth)]

----------------------------------------------------------------------------
(* State *)

VARIABLES
  session_state,   \* st.session_state: no key before the first run
  analysis_type,   \* value of the selectbox
  uploaded_file,   \* value of the file uploader: NoFile or a file name
  button,          \* the button whose press requested the pending run
  run_pending,     \* a script run has been requested and has not run yet
  clock,           \* datetime.now(): timestamps handed out so far
  backup_log,      \* timestamps of the records passed to backup_analysis
  backup_status,   \* BackupStatus of the Backup Manager
  run,             \* what the last run of main() did and rendered
  upload_appends,  \* records appended for the file now uploaded
  upload_backups   \* backup_analysis calls made for the file now uploaded

vars == <<session_state, analysis_type, uploaded_file, button, run_pending,
          clock, backup_log, backup_status, run, upload_appends,
          upload_backups>>

History == IF "analysis_history" \in DOMAIN session_state
           THEN session_state.analysis_history ELSE <<>>

NoRun == [outcome |-> "none", failed_stage |-> "none", type |-> <<>>,
          file |-> NoFile, calls |-> <<>>, detected_type |-> <<>>,
          analysis_result |-> <<>>, errors |-> NoError, info |-> <<>>,
          sidebar |-> <<>>, results |-> NoResults,
          statistics |-> Statistics(<<>>), status_line |-> <<>>,
          export_button |-> FALSE, download |-> <<>>]

Init ==
  /\ session_state = <<>>
  /\ analysis_type = AnalysisTypes[1]
  /\ uploaded_file = NoFile
  /\ button = "none"
  /\ run_pending = TRUE
  /\ clock = 0
  /\ backup_log = {}
  /\ backup_status = [status |-> BackupStates[1], failures |-> 0,
                      last_backup |-> 0]
  /\ run = NoRun
  /\ upload_appends = 0
  /\ upload_backups = 0

----------------------------------------------------------------------------
(* User interactions.  Each one changes a widget value and requests a run. *)
(* A run that records an analysis reads the clock, so an interaction that  *)
(* leaves a file uploaded needs a timestamp to be left.                    *)

Idle == ~run_pending
CanRun(f) == f = NoFile \/ clock < MaxAnalyses

\* app.py:52-55
SelectAnalysisType(t) ==
  /\ Idle /\ t # analysis_type /\ CanRun(uploaded_file)
  /\ analysis_type' = t
  /\ button' = "none"
  /\ run_pending' = TRUE
  /\ UNCHANGED <<session_state, uploaded_file, clock, backup_log,
                 backup_status, run, upload_appends, upload_backups>>

\* app.py:84-88
UploadFile(f) ==
  /\ Idle /\ CanRun(f)
  /\ uploaded_file' = f
  /\ upload_appends' = 0
  /\ upload_backups' = 0
  /\ button' = "none"
  /\ run_pending' = TRUE
  /\ UNCHANGED <<session_state, analysis_type, clock, backup_log,
                 backup_status, run>>

\* app.py:84-88  the user removes the file from the uploader
RemoveFile ==
  /\ Idle /\ uploaded_file # NoFile
  /\ uploaded_file' = NoFile
  /\ upload_appends' = 0
  /\ upload_backups' = 0
  /\ button' = "none"
  /\ run_pending' = TRUE
  /\ UNCHANGED <<session_state, analysis_type, clock, backup_log,
                 backup_status, run>>

\* app.py:66
ClickClearHistory ==
  /\ Idle /\ CanRun(uploaded_file)
  /\ run.outcome \in {"completed", "stopped"}
  /\ button' = "clear"
  /\ run_pending' = TRUE
  /\ UNCHANGED <<session_state, analysis_type, uploaded_file, clock,
                 backup_log, backup_status, run, upload_appends,
                 upload_backups>>

\* app.py:203  the button exists only if the last run rendered it
ClickExport ==
  /\ Idle /\ CanRun(uploaded_file)
  /\ run.export_button
  /\ button' = "export"
  /\ run_pending' = TRUE
  /\ UNCHANGED <<session_state, analysis_type, uploaded_file, clock,
                 backup_log, backup_status, run, upload_appends,
                 upload_backups>>

----------------------------------------------------------------------------
(* main(): one script run *)

RECURSIVE CountCalls(_, _)
CountCalls(calls, name) ==
  IF calls = <<>> THEN 0
  ELSE (IF Head(calls) = name THEN 1 ELSE 0) + CountCalls(Tail(calls), name)

Begin == InitSessionState(session_state)

\* app.py:40-47  a component fails to load: error, st.stop()
MainLoadFails ==
  /\ run_pending
  /\ session_state' = Begin
  /\ run' = [NoRun EXCEPT !.outcome = "load_failed",
                          !.type = analysis_type, !.file = uploaded_file,
                          !.errors = <<[kind |-> "Error loading system components",
                                        detail |-> "Exception"]>>]
  /\ button' = "none"
  /\ run_pending' = FALSE
  /\ UNCHANGED <<analysis_type, uploaded_file, clock, backup_log,
                 backup_status, upload_appends, upload_backups>>

\* app.py:66-68  Clear History was pressed: empty the history, st.rerun()
MainClearHistory ==
  /\ run_pending /\ button = "clear"
  /\ session_state' = [Begin EXCEPT !.analysis_history = <<>>]
  /\ run' = [NoRun EXCEPT !.outcome = "rerun", !.type = analysis_type,
                          !.file = uploaded_file]
  /\ button' = "none"
  /\ run_pending' = TRUE
  /\ UNCHANGED <<analysis_type, uploaded_file, clock, backup_log,
                 backup_status, upload_appends, upload_backups>>

\* app.py:82-140  the upload column of this run
Upload(ok) ==
  UploadColumn(Context(Begin, clock, backup_log, backup_status),
               analysis_type, uploaded_file, ok)

\* app.py:202-211
Export(h, pressed) == IF h # <<>> /\ pressed = "export" THEN h ELSE <<>>

\* the effects of a run on the session, common to every way it ends
Effects(c) ==
  /\ session_state' = [Begin EXCEPT !.analysis_history = c.history]
  /\ clock' = c.clock
  /\ backup_log' = c.backup_log
  /\ backup_status' = c.backup_status
  /\ upload_appends' =
       upload_appends + CountCalls(c.calls, "analysis_history.append")
  /\ upload_backups' = upload_backups + CountCalls(c.calls, "backup_analysis")
  /\ button' = "none"
  /\ run_pending' = FALSE
  /\ UNCHANGED <<analysis_type, uploaded_file>>

\* app.py:124-126, 138-140  the upload column ends the run with st.stop()
MainStops ==
  /\ run_pending /\ button # "clear"
  /\ \E ok \in BOOLEAN :
       LET c == Upload(ok)
       IN /\ c.status = "stopped"
          /\ run' = [NoRun EXCEPT
                       !.outcome = "stopped", !.failed_stage = c.failed_stage,
                       !.type = analysis_type, !.file = uploaded_file,
                       !.calls = c.calls, !.detected_type = c.detected_type,
                       !.analysis_result = c.analysis_result,
                       !.errors = c.errors, !.info = c.info,
                       !.sidebar = RecentAnalyses(Begin.analysis_history)]
          /\ Effects(c)

\* app.py:25-211  the run reaches the end of the script
MainCompletes ==
  /\ run_pending /\ button # "clear"
  /\ \E ok \in BOOLEAN :
       LET c == Upload(ok)
       IN /\ c.status = "running"
          /\ run' = [outcome |-> "completed", failed_stage |-> "none",
                     type |-> analysis_type, file |-> uploaded_file,
                     calls |-> ResultsCalls(c, uploaded_file),
                     detected_type |-> c.detected_type,
                     analysis_result |-> c.analysis_result,
                     errors |-> c.errors, info |-> c.info,
                     sidebar |-> RecentAnalyses(Begin.analysis_history),
                     results |-> ResultsColumn(c, uploaded_file),
                     statistics |-> Statistics(c.history),
                     status_line |-> <<c.backup_status.status,
                                       c.backup_status.last_backup>>,
                     export_button |-> c.history # <<>>,
                     download |-> Export(c.history, button)]
          /\ Effects(c)

main == MainLoadFails \/ MainClearHistory \/ MainStops \/ MainCompletes

Next ==
  \/ \E t \in {AnalysisTypes[k] : k \in 1..Len(AnalysisTypes)} :
       SelectAnalysisType(t)
  \/ \E f \in ImageNames : UploadFile(f)
  \/ RemoveFile
  \/ ClickClearHistory
  \/ ClickExport
  \/ main

Spec == Init /\ [][Next]_vars

----------------------------------------------------------------------------
(* Properties *)

InCalls(r, name) == \E i \in 1..Len(r.calls) : r.calls[i] = name
Before(r, a, b) ==
  \E i, j \in 1..Len(r.calls) : i < j /\ r.calls[i] = a /\ r.calls[j] = b
Analysed(r) == r.analysis_result # <<>>
Undetermined(r) ==
  r.detected_type # <<>> /\ r.detected_type \notin {plant, soil}
Rejected(r) == r.failed_stage # "none" \/ Undetermined(r)

\* C1: a run in which the image is rejected (opening, preprocessing or the
\* detector raises, or the detected type is neither plant nor soil) leaves
\* analysis_history as it was when the run started and calls
\* backup_analysis not once.
C1_RejectedRunRecordsNothing ==
  [][(run_pending /\ Rejected(run'))
       => /\ History' = History
          /\ backup_log' = backup_log
          /\ backup_status' = backup_status
          /\ ~InCalls(run', "backup_analysis")
          /\ ~InCalls(run', "analysis_history.append")]_vars

C1_Witness ==
  /\ Idle /\ run.outcome = "stopped"
  /\ run.failed_stage = "score"
  /\ History # <<>>

\* C2: while one file stays uploaded, exactly one record is appended for it
\* and exactly one backup_analysis call is made for it, however often the
\* script runs again.
C2_CapturedExactlyOnce ==
  uploaded_file # NoFile => upload_appends <= 1 /\ upload_backups <= 1

\* C3: a run that appended its record reaches the results column and shows
\* the result or the low-confidence warning, with no error, whether the
\* backup succeeded or failed; the failure shows only in the backup status.
C3_BackupFailureNotFatal ==
  InCalls(run, "analysis_history.append")
    => /\ run.outcome = "completed"
       /\ run.errors = NoError
       /\ run.results.shown \in {"result", "low_confidence"}
       /\ run.results.confidence = run.analysis_result[1].confidence
       /\ run.status_line[1] = backup_status.status

C3_Witness ==
  /\ Idle /\ InCalls(run, "backup_analysis")
  /\ backup_status.failures > 0
  /\ run.status_line[1] = "degraded"
  /\ run.results.shown = "result"

\* C4: at the end of a run every record in analysis_history has been passed
\* to backup_analysis.
C4_EveryRecordBackedUp ==
  Idle => \A k \in 1..Len(History) : History[k].timestamp \in backup_log

C4_Witness ==
  /\ Idle /\ Len(History) >= 2
  /\ backup_status.failures > 0

\* C5: get_recommendations is called before the record is appended, and
\* the appended record carries the recommendation list.
C5_RecommendedBeforeRecorded ==
  InCalls(run, "analysis_history.append")
    => /\ Before(run, "get_recommendations", "analysis_history.append")
       /\ \A k \in 1..Len(History) :
            "recommendations" \in DOMAIN History[k]

\* C6: a decode or format failure, an undetermined type and a scorer
\* failure are shown as three different kinds of error.
ErrorClass(stage) ==
  CASE stage \in {"decode", "normalize"} -> "input"
    [] stage = "classify" -> "ambiguous"
    [] stage = "score" -> "scoring"
    [] OTHER -> "none"
ErrorKinds(r) == [i \in 1..Len(r.errors) |-> r.errors[i].kind]
C6_DistinctErrorKinds ==
  [][(/\ ErrorClass(run.failed_stage) # "none"
      /\ ErrorClass(run'.failed_stage) # "none"
      /\ ErrorClass(run.failed_stage) # ErrorClass(run'.failed_stage))
       => ErrorKinds(run) # ErrorKinds(run')]_vars

\* C7: analysis_history is append-ordered: a run that analysed an image
\* adds exactly its record at the end, Clear History empties the history,
\* and nothing else changes it.
C7_AppendOrderedHistory ==
  [][/\ (run_pending /\ Analysed(run'))
          => History' = Append(History, run'.analysis_result[1])
     /\ \/ History' = History
        \/ \E r \in {run'.analysis_result[i] :
                       i \in 1..Len(run'.analysis_result)} :
             History' = Append(History, r)
        \/ History' = <<>> /\ button = "clear" /\ run_pending]_vars

C7_Witness ==
  /\ Idle /\ Len(History) = 2 /\ Analysed(run)
  /\ History[2] = run.analysis_result[1]
  /\ History[1] # History[2]

\* C8: detect_image_type is called exactly when the hint is Auto-detect; a
\* manual hint runs only its own detector; a run runs at most one detector;
\* the record's type names the detector that produced it.
ReachedTypeChoice(r) ==
  InCalls(r, "preprocess_image") /\ r.failed_stage # "normalize"
C8_HintSelectsDetector ==
  /\ InCalls(run, "detect_image_type")
       <=> (run.type = AutoDetect /\ ReachedTypeChoice(run))
  /\ (run.type = PlantHealth /\ ReachedTypeChoice(run))
       => /\ InCalls(run, "plant_detector.analyze")
          /\ ~InCalls(run, "soil_detector.analyze")
  /\ (run.type = SoilHealth /\ ReachedTypeChoice(run))
       => /\ InCalls(run, "soil_detector.analyze")
          /\ ~InCalls(run, "plant_detector.analyze")
  /\ CountCalls(run.calls, "plant_detector.analyze")
       + CountCalls(run.calls, "soil_detector.analyze") <= 1
  /\ Analysed(run)
       => /\ run.analysis_result[1].type = PlantHealth
               <=> InCalls(run, "plant_detector.analyze")
          /\ run.analysis_result[1].type = SoilHealth
               <=> InCalls(run, "soil_detector.analyze")
  /\ \A k \in 1..Len(History) : History[k].type \in {PlantHealth, SoilHealth}

C8_Witness ==
  /\ Idle /\ run.type = SoilHealth /\ run.file = "leaf.jpg"
  /\ Analysed(run) /\ run.analysis_result[1].type = SoilHealth

\* C9: the result, details and recommendations are shown and
\* get_recommendations is called exactly when confidence >= 0.5, otherwise
\* only the low-confidence warning; either way the record is already in
\* analysis_history and has been passed to backup_analysis.
C9_ThresholdGatesDisplayOnly ==
  Analysed(run)
    => LET r == run.analysis_result[1]
       IN /\ InCalls(run, "get_recommendations") <=> r.confidence >= 5
          /\ run.results.shown = "result" <=> r.confidence >= 5
          /\ run.results.shown = "low_confidence" <=> r.confidence < 5
          /\ r.confidence >= 5
               => /\ run.results.recommendations # <<>>
                  /\ run.results.details = r.details
                  /\ run.results.headline[3] = r.result
                  /\ Before(run, "analysis_history.append", "get_recommendations")
                  /\ Before(run, "backup_analysis", "get_recommendations")
          /\ r.confidence < 5
               => /\ run.results.recommendations = <<>>
                  /\ run.results.details = <<>>
                  /\ run.results.headline = <<>>
          /\ History # <<>> /\ History[Len(History)] = r
          /\ r.timestamp \in backup_log

C9_Witness ==
  /\ Idle /\ Analysed(run)
  /\ run.analysis_result[1].confidence = 5
  /\ run.results.shown = "result"

\* C10: the sidebar lists the last min(5, length) records in insertion
\* order, and the number in each label is the 1-based position of its
\* record in analysis_history.
Min(a, b) == IF a < b THEN a ELSE b
ListedLength(r) == IF Analysed(r) THEN Len(History) - 1 ELSE Len(History)
C10_LabelsArePositions ==
  run.outcome \in {"completed", "stopped"}
    => /\ Len(run.sidebar) = Min(5, ListedLength(run))
       /\ \A k \in 1..Len(run.sidebar) :
            /\ run.sidebar[k].analysis
                 = History[ListedLength(run) - Len(run.sidebar) + k]
            /\ run.sidebar[k].label \in 1..Len(History)
            /\ run.sidebar[k].analysis = History[run.sidebar[k].label]

====
